---------------------------- MODULE Spec2Model ----------------------------
(***************************************************************************)
(* A model of the devbanhmi blog's content library:                        *)
(*   - src/src/lib/wordpress.ts          processContent, getExcerptText,   *)
(*                                       fetchAPI and the read accessors   *)
(*   - src/src/lib/wordpress-publish.ts  wpFetch and the write operations  *)
(*   - src/scripts/publish-post.ts       the publish script                *)
(*                                                                         *)
(* A string is a sequence of one-character strings.  Every regular         *)
(* expression of the source is an operator that returns, for a position    *)
(* of the subject, the match that JavaScript's backtracking matcher finds  *)
(* there: <<>> when there is none, otherwise <<end, g1from, g1to, ...>>    *)
(* with end the first position after the match.                            *)
(***************************************************************************)
EXTENDS Integers, Sequences, FiniteSets, TLC

VARIABLES
    content,      \* processContent: the argument
    processed,    \* processContent: the local processed
    codeBlocks,   \* processContent: the local codeBlocks
    pc,           \* processContent: the pass that runs next
    excerpt,      \* getExcerptText: the argument
    maxLength,    \* getExcerptText: the argument maxLength
    text,         \* getExcerptText: the local text
    excerptOut,   \* getExcerptText: what it returns
    xpc,          \* getExcerptText: the statement that runs next
    backend,      \* the categories and posts the remote API holds
    op,           \* the exported function (or script) that runs: name and argument
    hpc,          \* where it stands: idle, await, settled, done
    requests,     \* the requests it has issued, in order
    responses,    \* the answers it has received, in order
    outcome,      \* what it returned or raised
    console       \* what it wrote to the console

contentVars == <<content, processed, codeBlocks, pc>>
excerptVars == <<excerpt, maxLength, text, excerptOut, xpc>>
httpVars == <<backend, op, hpc, requests, responses, outcome, console>>

-----------------------------------------------------------------------------
(* Characters and literals *)

NL == "\n"
QUOTE == "\""

\* Three characters that a string literal of this notation cannot hold are
\* named: the backtick (U+0060), the en dash (U+2013), the em dash (U+2014).
\* Each is one character of the subject like any other.
BT == "BACKTICK"
EnDash == "ENDASH"
EmDash == "EMDASH"

\* \s of the source's patterns, and what String.prototype.trim removes
WhiteSpace == {" ", NL, "\t", "\r"}

\* what `.` does not match
LineTerminator == {NL, "\r"}

\* \d
Digit == {"0", "1", "2", "3", "4", "5", "6", "7", "8", "9"}

DigitSeq == <<"0", "1", "2", "3", "4", "5", "6", "7", "8", "9">>

\* \w
WordChar ==
    Digit \cup {"_"} \cup
    {"a", "b", "c", "d", "e", "f", "g", "h", "i", "j", "k", "l", "m",
     "n", "o", "p", "q", "r", "s", "t", "u", "v", "w", "x", "y", "z"} \cup
    {"A", "B", "C", "D", "E", "F", "G", "H", "I", "J", "K", "L", "M",
     "N", "O", "P", "Q", "R", "S", "T", "U", "V", "W", "X", "Y", "Z"}

LitP == <<"<", "p", ">">>
LitPEnd == <<"<", "/", "p", ">">>
LitBr == <<"<", "b", "r">>
LitBackticks == <<BT, BT, BT>>
LitTildes == <<"~", "~", "~">>
LitStars == <<"*", "*">>
LitGt == <<"&", "g", "t", ";">>
LitLt == <<"&", "l", "t", ";">>
LitAmp == <<"&", "a", "m", "p", ";">>
LitHr == <<"<", "h", "r", ">">>
LitDots == <<".", ".", ".">>
LitUndefined == <<"u", "n", "d", "e", "f", "i", "n", "e", "d">>
LitPlaintext == <<"p", "l", "a", "i", "n", "t", "e", "x", "t">>
LitPlaceholder == <<"_", "_", "C", "O", "D", "E", "_", "B", "L", "O", "C", "K", "_">>
LitPreCode ==
    <<"<", "p", "r", "e", ">", "<", "c", "o", "d", "e", " ", "c", "l", "a", "s", "s",
      "=", QUOTE, "l", "a", "n", "g", "u", "a", "g", "e", "-">>
LitPreCodeEnd ==
    <<"<", "/", "c", "o", "d", "e", ">", "<", "/", "p", "r", "e", ">">>

\* <name> and </name>
Tag(name) == <<"<">> \o name \o <<">">>
EndTag(name) == <<"<", "/">> \o name \o <<">">>
Wrap(name, body) == Tag(name) \o body \o EndTag(name)

TagCode == <<"c", "o", "d", "e">>
TagStrong == <<"s", "t", "r", "o", "n", "g">>
TagEm == <<"e", "m">>
TagLi == <<"l", "i">>
TagOl == <<"o", "l">>
TagUl == <<"u", "l">>
TagP == <<"p">>
TagBlockquote == <<"b", "l", "o", "c", "k", "q", "u", "o", "t", "e">>

-----------------------------------------------------------------------------
(* Strings *)

Min(S) == CHOOSE x \in S : \A y \in S : x <= y
Max(S) == CHOOSE x \in S : \A y \in S : x >= y

\* s[from..to], empty when to < from
Sub(s, from, to) == SubSeq(s, from, to)

\* whether lit occurs in s at position i
At(lit, s, i) ==
    /\ i >= 1
    /\ i + Len(lit) - 1 <= Len(s)
    /\ \A k \in 1..Len(lit) : s[i + k - 1] = lit[k]

\* the first position >= i where lit occurs in s, 0 when there is none
Find(lit, s, i) ==
    LET hits == {j \in i..Len(s) : At(lit, s, j)}
    IN  IF hits = {} THEN 0 ELSE Min(hits)

\* the first position >= i of s that holds no character of class, Len(s)+1
\* when the run reaches the end: the end of a greedy class* at i
RunEnd(class, s, i) ==
    LET stops == {j \in i..Len(s) : s[j] \notin class}
    IN  IF stops = {} THEN Len(s) + 1 ELSE Min(stops)

\* whether s[from..to] holds a character of class
Holds(class, s, from, to) == \E j \in from..to : s[j] \in class

\* Array.prototype.join
RECURSIVE Join(_, _)
Join(ss, sep) ==
    IF ss = <<>> THEN <<>>
    ELSE IF Len(ss) = 1 THEN ss[1]
    ELSE ss[1] \o sep \o Join(Tail(ss), sep)

\* String.prototype.trim
Trim(s) ==
    LET keep == {j \in 1..Len(s) : s[j] \notin WhiteSpace}
    IN  IF keep = {} THEN <<>> ELSE Sub(s, Min(keep), Max(keep))

\* String(n) of a non-negative integer
RECURSIVE ToDigits(_)
ToDigits(n) ==
    IF n < 10 THEN <<DigitSeq[n + 1]>>
    ELSE ToDigits(n \div 10) \o <<DigitSeq[(n % 10) + 1]>>

DigitValue(c) == CHOOSE v \in 0..9 : DigitSeq[v + 1] = c

\* parseInt of a string of decimal digits
RECURSIVE ParseInt(_)
ParseInt(ds) ==
    IF Len(ds) = 0 THEN 0
    ELSE 10 * ParseInt(Sub(ds, 1, Len(ds) - 1)) + DigitValue(ds[Len(ds)])

\* the first position >= i where the pattern matches, 0 when there is none
NextMatch(s, match, i) ==
    LET hits == {j \in i..Len(s) : match[j] # <<>>}
    IN  IF hits = {} THEN 0 ELSE Min(hits)

\* String.prototype.replace with a global pattern: match[i] is the pattern's
\* match at position i of s, repl[i] the replacement of that match.  The scan
\* takes the leftmost match, resumes after it and copies what it skips.
ReplaceAll(s, match, repl) ==
    LET Go[i \in 1..(Len(s) + 1)] ==
            LET j == NextMatch(s, match, i)
            IN  IF j = 0 THEN Sub(s, i, Len(s))
                ELSE Sub(s, i, j - 1) \o repl[j] \o Go[match[j][1]]
    IN  Go[1]

\* the positions where the global pattern's matches start, in order
MatchStarts(s, match) ==
    LET Go[i \in 1..(Len(s) + 1)] ==
            LET j == NextMatch(s, match, i)
            IN  IF j = 0 THEN <<>> ELSE <<j>> \o Go[match[j][1]]
    IN  Go[1]

\* String.prototype.split on a pattern without groups
SplitOn(s, match) ==
    LET Go[i \in 1..(Len(s) + 1)] ==
            LET j == NextMatch(s, match, i)
            IN  IF j = 0 THEN <<Sub(s, i, Len(s))>>
                ELSE <<Sub(s, i, j - 1)>> \o Go[match[j][1]]
    IN  Go[1]

-----------------------------------------------------------------------------
(* processContent: the patterns *)

\* /`([^`]+)`/ at i: a backtick, the non-backtick characters up to the next
\* backtick (one at least), that backtick.  Group 1 is what lies between.
InlineCodeAt(s, i) ==
    IF i > Len(s) \/ s[i] # BT THEN <<>>
    ELSE LET j == Find(<<BT>>, s, i + 1)
         IN  IF j = 0 \/ j = i + 1 THEN <<>> ELSE <<j + 1, i + 1, j - 1>>

\* lead \s* (.+?) <\/p> at i, for a literal lead: the greedy \s* gives back
\* whitespace until the lazy group, one character at least and none of them
\* a line terminator, reaches the first </p>.
LeadParagraphAt(lead, s, i) ==
    IF ~At(lead, s, i) THEN <<>>
    ELSE LET from == i + Len(lead)
             wsEnd == RunEnd(WhiteSpace, s, from)
             \* the match when the group starts at q
             Try(q) == LET e == Find(LitPEnd, s, q + 1)
                       IN  IF e = 0 \/ Holds(LineTerminator, s, q, e - 1)
                           THEN <<>> ELSE <<e + Len(LitPEnd), q, e - 1>>
             ok == {q \in from..wsEnd : Try(q) # <<>>}
         IN  IF ok = {} THEN <<>> ELSE Try(Max(ok))

Hashes(k) == [j \in 1..k |-> "#"]

\* /<p>#{k}\s*(.+?)<\/p>/ at i
HeadingAt(k, s, i) == LeadParagraphAt(LitP \o Hashes(k), s, i)

\* /\*\*(.+?)\*\*/ at i: the lazy group ends at the first ** that follows one
\* character at least, and holds no line terminator.
BoldAt(s, i) ==
    IF ~At(LitStars, s, i) THEN <<>>
    ELSE LET q == i + 2
             e == Find(LitStars, s, q + 1)
         IN  IF e = 0 \/ Holds(LineTerminator, s, q, e - 1)
             THEN <<>> ELSE <<e + 2, q, e - 1>>

\* /(?<!\*)\*([^*]+)\*(?!\*)/ at i: an asterisk that no asterisk precedes,
\* the characters up to the next asterisk (one at least, line terminators
\* included), that asterisk, and no asterisk after it.
ItalicAt(s, i) ==
    IF i > Len(s) \/ s[i] # "*" \/ (i > 1 /\ s[i - 1] = "*") THEN <<>>
    ELSE LET j == Find(<<"*">>, s, i + 1)
         IN  IF j = 0 \/ j = i + 1 \/ (j < Len(s) /\ s[j + 1] = "*")
             THEN <<>> ELSE <<j + 1, i + 1, j - 1>>

\* /__CODE_BLOCK_(\d+)__/ at i
PlaceholderAt(s, i) ==
    IF ~At(LitPlaceholder, s, i) THEN <<>>
    ELSE LET d == i + Len(LitPlaceholder)
             e == RunEnd(Digit, s, d)
         IN  IF e = d \/ ~At(<<"_", "_">>, s, e) THEN <<>> ELSE <<e + 2, d, e - 1>>

\* /<p>(fff[\s\S]*?fff)<\/p>/ at i, fff the fence: group 1 ends with the first
\* fence that </p> follows.
WrappedFenceAt(fence, s, i) ==
    IF ~At(LitP \o fence, s, i) THEN <<>>
    ELSE LET e == Find(fence \o LitPEnd, s, i + Len(LitP) + Len(fence))
         IN  IF e = 0 THEN <<>>
             ELSE <<e + Len(fence) + Len(LitPEnd), i + Len(LitP), e + Len(fence) - 1>>

\* /```(\w+)?\n?([\s\S]*?)```/ at i: group 1 the word characters after the
\* fence (from = to + 1 when there are none), an optional newline, group 2
\* up to the next ```.
FencedCodeAt(s, i) ==
    IF ~At(LitBackticks, s, i) THEN <<>>
    ELSE LET l == i + 3
             lEnd == RunEnd(WordChar, s, l)
             c == IF lEnd <= Len(s) /\ s[lEnd] = NL THEN lEnd + 1 ELSE lEnd
             e == Find(LitBackticks, s, c)
         IN  IF e = 0 THEN <<>> ELSE <<e + 3, l, lEnd - 1, c, e - 1>>

\* /<p>&gt;\s*(.+?)<\/p>/ at i
BlockquoteAt(s, i) == LeadParagraphAt(LitP \o LitGt, s, i)

\* /<p>[-*_]{3,}<\/p>/ at i
RuleAt(s, i) ==
    IF ~At(LitP, s, i) THEN <<>>
    ELSE LET r == i + Len(LitP)
             e == RunEnd({"-", "*", "_"}, s, r)
         IN  IF e - r < 3 \/ ~At(LitPEnd, s, e) THEN <<>> ELSE <<e + Len(LitPEnd)>>

\* /^\d+\.\s+/ when ordered, /^[-*]\s+/ otherwise, at i: the position after
\* the prefix, 0 when s[i..] does not start with one
ListPrefixEnd(ordered, s, i) ==
    LET m == IF ordered
             THEN LET d == RunEnd(Digit, s, i)
                  IN  IF d = i \/ d > Len(s) \/ s[d] # "." THEN 0 ELSE d + 1
             ELSE IF i > Len(s) \/ s[i] \notin {"-", "*"} THEN 0 ELSE i + 1
         w == IF m = 0 THEN 0 ELSE RunEnd(WhiteSpace, s, m)
    IN  IF m = 0 \/ w = m THEN 0 ELSE w

\* /<p>(\d+\.\s+[\s\S]*?)<\/p>/ or /<p>([-*]\s+[\s\S]*?)<\/p>/ at i
ListParagraphAt(ordered, s, i) ==
    IF ~At(LitP, s, i) THEN <<>>
    ELSE LET w == ListPrefixEnd(ordered, s, i + Len(LitP))
             e == IF w = 0 THEN 0 ELSE Find(LitPEnd, s, w)
         IN  IF e = 0 THEN <<>> ELSE <<e + Len(LitPEnd)>>

\* /<\/?p>/ at i
ParagraphTagAt(s, i) ==
    IF At(LitP, s, i) THEN <<i + Len(LitP)>>
    ELSE IF At(LitPEnd, s, i) THEN <<i + Len(LitPEnd)>>
    ELSE <<>>

\* /<br\s*\/?>|\n/ at i
LineBreakAt(s, i) ==
    IF At(LitBr, s, i)
    THEN LET w == RunEnd(WhiteSpace, s, i + Len(LitBr))
             g == IF w <= Len(s) /\ s[w] = "/" THEN w + 1 ELSE w
         IN  IF g <= Len(s) /\ s[g] = ">" THEN <<g + 1>> ELSE <<>>
    ELSE IF i <= Len(s) /\ s[i] = NL THEN <<i + 1>>
    ELSE <<>>

-----------------------------------------------------------------------------
(* processContent: the passes, in the order of the source *)

\* the token that stands for the code span with index n
PlaceholderToken(n) == LitPlaceholder \o ToDigits(n) \o <<"_", "_">>

\* the code spans the first pass captures, in order
CapturedCode(s) ==
    LET m == [i \in 1..Len(s) |-> InlineCodeAt(s, i)]
        starts == MatchStarts(s, m)
    IN  [k \in 1..Len(starts) |-> Sub(s, m[starts[k]][2], m[starts[k]][3])]

\* the first pass: every code span is pushed on codeBlocks and replaced by
\* the token of its index
ProtectInlineCode(s) ==
    LET m == [i \in 1..Len(s) |-> InlineCodeAt(s, i)]
        starts == MatchStarts(s, m)
        index == [i \in 1..Len(s) |-> Cardinality({k \in 1..Len(starts) : starts[k] < i})]
    IN  ReplaceAll(s, m, [i \in 1..Len(s) |-> PlaceholderToken(index[i])])

\* one heading replace: <p>#{k}\s*(.+?)</p> becomes <hk>$1</hk>
HeadingLevel(k, s) ==
    LET m == [i \in 1..Len(s) |-> HeadingAt(k, s, i)]
    IN  ReplaceAll(s, m,
            [i \in 1..Len(s) |-> Wrap(<<"h", DigitSeq[k + 1]>>, Sub(s, m[i][2], m[i][3]))])

\* the six heading replaces in the opposite order, one hash first
HeadingsShortestFirst(s) ==
    HeadingLevel(6, HeadingLevel(5, HeadingLevel(4,
        HeadingLevel(3, HeadingLevel(2, HeadingLevel(1, s))))))

\* the six heading replaces, six hashes first
Headings(s) ==
    HeadingLevel(1, HeadingLevel(2, HeadingLevel(3,
        HeadingLevel(4, HeadingLevel(5, HeadingLevel(6, s))))))

Bold(s) ==
    LET m == [i \in 1..Len(s) |-> BoldAt(s, i)]
    IN  ReplaceAll(s, m, [i \in 1..Len(s) |-> Wrap(TagStrong, Sub(s, m[i][2], m[i][3]))])

Italic(s) ==
    LET m == [i \in 1..Len(s) |-> ItalicAt(s, i)]
    IN  ReplaceAll(s, m, [i \in 1..Len(s) |-> Wrap(TagEm, Sub(s, m[i][2], m[i][3]))])

Emphasis(s) == Italic(Bold(s))

\* codeBlocks[parseInt(index)] in a template literal: "undefined" when the
\* array has no such element
CodeBlockText(blocks, digits) ==
    LET n == ParseInt(digits)
    IN  IF n < Len(blocks) THEN blocks[n + 1] ELSE LitUndefined

RestoreInlineCode(s, blocks) ==
    LET m == [i \in 1..Len(s) |-> PlaceholderAt(s, i)]
    IN  ReplaceAll(s, m,
            [i \in 1..Len(s) |-> Wrap(TagCode, CodeBlockText(blocks, Sub(s, m[i][2], m[i][3])))])

\* <p>(fence ... fence)</p> becomes $1
UnwrapFence(fence, s) ==
    LET m == [i \in 1..Len(s) |-> WrappedFenceAt(fence, s, i)]
    IN  ReplaceAll(s, m, [i \in 1..Len(s) |-> Sub(s, m[i][2], m[i][3])])

\* replace(/c/g, by) for a one-character pattern
ReplaceChar(s, c, by) ==
    ReplaceAll(s, [i \in 1..Len(s) |-> IF s[i] = c THEN <<i + 1>> ELSE <<>>],
               [i \in 1..Len(s) |-> by])

\* code.trim().replace(/&/g, '&amp;').replace(/</g, '&lt;').replace(/>/g, '&gt;')
EscapeCode(code) ==
    ReplaceChar(ReplaceChar(ReplaceChar(Trim(code), "&", LitAmp), "<", LitLt), ">", LitGt)

FencedBlock(lang, code) ==
    LitPreCode \o (IF lang = <<>> THEN LitPlaintext ELSE lang) \o <<QUOTE, ">">>
        \o EscapeCode(code) \o LitPreCodeEnd

FencedCode(s) ==
    LET m == [i \in 1..Len(s) |-> FencedCodeAt(s, i)]
    IN  ReplaceAll(s, m,
            [i \in 1..Len(s) |->
                FencedBlock(Sub(s, m[i][2], m[i][3]), Sub(s, m[i][4], m[i][5]))])

CodeFences(s) == FencedCode(UnwrapFence(LitTildes, UnwrapFence(LitBackticks, s)))

Blockquotes(s) ==
    LET m == [i \in 1..Len(s) |-> BlockquoteAt(s, i)]
    IN  ReplaceAll(s, m,
            [i \in 1..Len(s) |-> Wrap(TagBlockquote, Wrap(TagP, Sub(s, m[i][2], m[i][3])))])

HorizontalRules(s) ==
    LET m == [i \in 1..Len(s) |-> RuleAt(s, i)]
    IN  ReplaceAll(s, m, [i \in 1..Len(s) |-> LitHr])

\* the callback of a list replace on one matched paragraph
ListItems(ordered, para) ==
    LET bare == ReplaceAll(para, [i \in 1..Len(para) |-> ParagraphTagAt(para, i)],
                           [i \in 1..Len(para) |-> <<>>])
        lines == SplitOn(bare, [i \in 1..Len(bare) |-> LineBreakAt(bare, i)])
        trimmed == [k \in 1..Len(lines) |-> Trim(lines[k])]
        kept == SelectSeq(trimmed, LAMBDA item : ListPrefixEnd(ordered, item, 1) # 0)
        tagged == [k \in 1..Len(kept) |->
                      Wrap(TagLi, Sub(kept[k], ListPrefixEnd(ordered, kept[k], 1), Len(kept[k])))]
        items == Join(tagged, <<NL>>)
    IN  IF Len(items) > 0 THEN Wrap(IF ordered THEN TagOl ELSE TagUl, items) ELSE para

Lists(ordered, s) ==
    LET m == [i \in 1..Len(s) |-> ListParagraphAt(ordered, s, i)]
    IN  ReplaceAll(s, m, [i \in 1..Len(s) |-> ListItems(ordered, Sub(s, i, m[i][1] - 1))])

OrderedLists(s) == Lists(TRUE, s)
UnorderedLists(s) == Lists(FALSE, s)

\* the function as a whole
ProcessContentOf(s) ==
    UnorderedLists(OrderedLists(HorizontalRules(Blockquotes(CodeFences(
        RestoreInlineCode(Emphasis(Headings(ProtectInlineCode(s))), CapturedCode(s)))))))

-----------------------------------------------------------------------------
(* getExcerptText: the patterns *)

\* a pattern that is a literal, at i
LiteralAt(lit, s, i) == IF At(lit, s, i) THEN <<i + Len(lit)>> ELSE <<>>

ReplaceLiteral(s, lit, by) ==
    ReplaceAll(s, [i \in 1..Len(s) |-> LiteralAt(lit, s, i)], [i \in 1..Len(s) |-> by])

LitEntity == <<"&", "#">>
LitEnDashEntity == <<"&", "#", "8", "2", "1", "1", ";">>
LitEmDashEntity == <<"&", "#", "8", "2", "1", "2", ";">>
LitNbsp == <<"&", "n", "b", "s", "p", ";">>

\* /&#\d+;/ at i
NumericEntityAt(s, i) ==
    IF ~At(LitEntity, s, i) THEN <<>>
    ELSE LET d == i + Len(LitEntity)
             e == RunEnd(Digit, s, d)
         IN  IF e = d \/ e > Len(s) \/ s[e] # ";" THEN <<>> ELSE <<e + 1>>

\* /<[^>]+>/ at i
HtmlTagAt(s, i) ==
    IF i > Len(s) \/ s[i] # "<" THEN <<>>
    ELSE LET j == Find(<<">">>, s, i + 1)
         IN  IF j = 0 \/ j = i + 1 THEN <<>> ELSE <<j + 1>>

\* /^#{1,6}\s+/m at i: at the start of a line, one to six hashes and the
\* whitespace after them (line terminators included), one character at least
HeaderMarkAt(s, i) ==
    IF i > Len(s) \/ s[i] # "#" \/ (i > 1 /\ s[i - 1] \notin LineTerminator) THEN <<>>
    ELSE LET h == RunEnd({"#"}, s, i)
             w == RunEnd(WhiteSpace, s, h)
         IN  IF h - i > 6 \/ w = h THEN <<>> ELSE <<w>>

\* /\*(.+?)\*/ at i
StarSpanAt(s, i) ==
    IF i > Len(s) \/ s[i] # "*" THEN <<>>
    ELSE LET q == i + 1
             e == Find(<<"*">>, s, q + 1)
         IN  IF e = 0 \/ Holds(LineTerminator, s, q, e - 1)
             THEN <<>> ELSE <<e + 1, q, e - 1>>

\* /\[([^\]]+)\]\([^)]+\)/ at i
LinkAt(s, i) ==
    IF i > Len(s) \/ s[i] # "[" THEN <<>>
    ELSE LET j == Find(<<"]">>, s, i + 1)
             k == IF j = 0 THEN 0 ELSE Find(<<")">>, s, j + 2)
         IN  IF j = 0 \/ j = i + 1 \/ ~At(<<"]", "(">>, s, j) \/ k = 0 \/ k = j + 2
             THEN <<>> ELSE <<k + 1, i + 1, j - 1>>

\* replace(pattern, '$1') for a pattern whose matches are given
KeepGroup(s, m) == ReplaceAll(s, m, [i \in 1..Len(s) |-> Sub(s, m[i][2], m[i][3])])

StripNumericEntities(s) ==
    ReplaceAll(s, [i \in 1..Len(s) |-> NumericEntityAt(s, i)], [i \in 1..Len(s) |-> <<>>])
StripHtmlTags(s) ==
    ReplaceAll(s, [i \in 1..Len(s) |-> HtmlTagAt(s, i)], [i \in 1..Len(s) |-> <<>>])
StripHeaderMarks(s) ==
    ReplaceAll(s, [i \in 1..Len(s) |-> HeaderMarkAt(s, i)], [i \in 1..Len(s) |-> <<>>])
StripBold(s) == KeepGroup(s, [i \in 1..Len(s) |-> BoldAt(s, i)])
StripItalic(s) == KeepGroup(s, [i \in 1..Len(s) |-> StarSpanAt(s, i)])
StripInlineCode(s) == KeepGroup(s, [i \in 1..Len(s) |-> InlineCodeAt(s, i)])
StripLinks(s) == KeepGroup(s, [i \in 1..Len(s) |-> LinkAt(s, i)])

\* the chain that computes `text`
CleanExcerpt(s) ==
    Trim(StripLinks(StripInlineCode(StripItalic(StripBold(StripHeaderMarks(StripHtmlTags(
        ReplaceLiteral(ReplaceLiteral(StripNumericEntities(
            ReplaceLiteral(ReplaceLiteral(s, LitEnDashEntity, <<EnDash>>),
                           LitEmDashEntity, <<EmDash>>)),
            LitAmp, <<"&">>), LitNbsp, <<" ">>))))))))

\* the cut without the trim of the part kept
TruncateExcerptUntrimmed(t, max) ==
    IF Len(t) <= max THEN t ELSE Sub(t, 1, max) \o LitDots

\* if (text.length <= maxLength) return text;
\* return text.substring(0, maxLength).trim() + '...';
TruncateExcerpt(t, max) ==
    IF Len(t) <= max THEN t ELSE Trim(Sub(t, 1, max)) \o LitDots

GetExcerptTextOf(s, max) == TruncateExcerpt(CleanExcerpt(s), max)

-----------------------------------------------------------------------------
(* The REST clients: fetchAPI (wordpress.ts) and wpFetch (wordpress-publish.ts) *)

UpperCase ==
    <<"A", "B", "C", "D", "E", "F", "G", "H", "I", "J", "K", "L", "M",
      "N", "O", "P", "Q", "R", "S", "T", "U", "V", "W", "X", "Y", "Z">>
LowerCase ==
    <<"a", "b", "c", "d", "e", "f", "g", "h", "i", "j", "k", "l", "m",
      "n", "o", "p", "q", "r", "s", "t", "u", "v", "w", "x", "y", "z">>

\* String.prototype.toLowerCase
ToLowerCase(s) ==
    [i \in 1..Len(s) |->
        IF \E k \in 1..26 : UpperCase[k] = s[i]
        THEN LowerCase[CHOOSE k \in 1..26 : UpperCase[k] = s[i]]
        ELSE s[i]]

\* per_page=100 of the two category and slug listings
PerPage == 100
\* String(options.perPage || 10)
DefaultPerPage == 10
\* const categoryId = 4
ScriptCategoryId == 4

MaxNamed == 2
MaxPosts == 2

CategoryNames == {<<"V", "i", "b", "e">>, <<"v", "i", "b", "e">>, <<"D", "e", "v">>}
Slugs == {"hello", "world"}
ErrorStatuses == {401, 500}
StatusTexts == {"Unauthorized", "Internal Server Error"}
ErrorBodies == {"rest_cannot_create", "rest_invalid_param"}
PostIds == 1..(MaxPosts + 1)

\* (the records of this module list their fields in the order in which TLC
\* keeps them)

\* fetch(url) of fetchAPI: GET, the _embed parameter first, no credentials
ReadRequest(endpoint, params) ==
    [body |-> <<>>, endpoint |-> endpoint, params |-> <<<<"_embed", "true">>>> \o params,
     fn |-> "fetchAPI", method |-> "GET", auth |-> FALSE]

\* fetch(url, options) of wpFetch: the Authorization header always
WriteRequest(method, endpoint, params, body) ==
    [body |-> body, endpoint |-> endpoint, params |-> params,
     fn |-> "wpFetch", method |-> method, auth |-> TRUE]

\* the first request of each exported function
GetPostsRequest(perPage) ==
    ReadRequest(<<"posts">>,
        <<<<"per_page", IF perPage = 0 THEN DefaultPerPage ELSE perPage>>,
          <<"page", 1>>, <<"orderby", "date">>, <<"order", "desc">>>>)
GetPostBySlugRequest(slug) == ReadRequest(<<"posts">>, <<<<"slug", slug>>>>)
GetAllPostSlugsRequest ==
    ReadRequest(<<"posts">>, <<<<"per_page", PerPage>>, <<"_fields", "slug">>>>)
ReadCategoriesRequest ==
    ReadRequest(<<"categories">>, <<<<"per_page", PerPage>>, <<"hide_empty", "true">>>>)
GetCategoryBySlugRequest(slug) == ReadRequest(<<"categories">>, <<<<"slug", slug>>>>)
CreatePostRequest(status, categories) ==
    WriteRequest("POST", <<"posts">>, <<>>,
        <<<<"status", status>>, <<"categories", categories>>>>)
UpdatePostRequest(id, data) == WriteRequest("POST", <<"posts", id>>, <<>>, data)
PublishPostRequest(id) == UpdatePostRequest(id, <<<<"status", "publish">>>>)
GetCategoriesRequest == WriteRequest("GET", <<"categories">>, <<<<"per_page", PerPage>>>>, <<>>)
CreateCategoryRequest(name) ==
    WriteRequest("POST", <<"categories">>, <<>>, <<<<"name", name>>>>)

\* the value of parameter key in a list of <<key, value>> pairs, or none
Param(pairs, key, none) ==
    LET hits == {i \in 1..Len(pairs) : pairs[i][1] = key}
    IN  IF hits = {} THEN none ELSE pairs[Max(hits)][2]

-----------------------------------------------------------------------------
(* The backend, as far as the clients see it *)

\* The categories are a list: `fill` categories whose names match no name a
\* caller asks for, with ids 1..fill, then the `named` ones in order, with ids
\* fill + 1, ...  The posts are a list of slugs, the post at position i has id i.
CategoryId(b, i) == b.fill + i
CategoryAt(b, i) ==
    [name |-> b.named[i], slug |-> ToLowerCase(b.named[i]), id |-> CategoryId(b, i)]
PostAt(b, i) ==
    [slug |-> b.posts[i], status |-> "publish", id |-> i, link |-> <<"/", b.posts[i], "/">>]

\* the first perPage categories: how many of the unnamed ones, and the named
\* ones that fit after them
CategoryPage(b, perPage) ==
    LET shown == IF b.fill >= perPage THEN 0
                 ELSE IF Len(b.named) <= perPage - b.fill THEN Len(b.named)
                 ELSE perPage - b.fill
    IN  [items |-> [i \in 1..shown |-> CategoryAt(b, i)],
         others |-> IF b.fill >= perPage THEN perPage ELSE b.fill]

FirstN(seq, n) == IF Len(seq) <= n THEN seq ELSE SubSeq(seq, 1, n)

\* the JSON of a 2xx answer to req
JsonFor(b, req) ==
    CASE req.method = "GET" /\ req.endpoint = <<"posts">> ->
            LET all == [i \in 1..Len(b.posts) |-> PostAt(b, i)]
                slug == Param(req.params, "slug", "")
                hits == IF slug = "" THEN all ELSE SelectSeq(all, LAMBDA p : p.slug = slug)
            IN  FirstN(hits, Param(req.params, "per_page", DefaultPerPage))
      [] req.method = "GET" /\ req.endpoint = <<"categories">> ->
            LET slug == Param(req.params, "slug", <<>>)
            IN  IF slug = <<>>
                THEN CategoryPage(b, Param(req.params, "per_page", DefaultPerPage))
                ELSE [items |-> SelectSeq([i \in 1..Len(b.named) |-> CategoryAt(b, i)],
                                          LAMBDA c : c.slug = slug),
                      others |-> 0]
      [] req.method = "POST" /\ req.endpoint = <<"posts">> ->
            [slug |-> "created", status |-> Param(req.body, "status", "draft"),
             id |-> Len(b.posts) + 1, link |-> <<"/", "created", "/">>]
      [] req.method = "POST" /\ req.endpoint = <<"categories">> ->
            [name |-> Param(req.body, "name", <<>>),
             slug |-> ToLowerCase(Param(req.body, "name", <<>>)),
             id |-> CategoryId(b, Len(b.named) + 1)]
      [] OTHER ->    \* POST posts/:id
            [slug |-> b.posts[req.endpoint[2]],
             status |-> Param(req.body, "status", "publish"),
             id |-> req.endpoint[2],
             link |-> <<"/", b.posts[req.endpoint[2]], "/">>]

\* whether the backend can answer req with a 2xx
CanServe(b, req) ==
    CASE req.method = "POST" /\ req.endpoint = <<"posts">> -> Len(b.posts) < MaxPosts
      [] req.method = "POST" /\ req.endpoint = <<"categories">> -> Len(b.named) < MaxNamed
      [] req.method = "POST" -> req.endpoint[2] \in 1..Len(b.posts)
      [] OTHER -> TRUE

\* the backend after it served req
Served(b, req) ==
    CASE req.method = "POST" /\ req.endpoint = <<"posts">> ->
            [b EXCEPT !.posts = Append(@, "created")]
      [] req.method = "POST" /\ req.endpoint = <<"categories">> ->
            [b EXCEPT !.named = Append(@, Param(req.body, "name", <<>>))]
      [] OTHER -> b

Rejected == [body |-> "", status |-> 0, kind |-> "rejected", statusText |-> "", json |-> <<>>]
Success(json) == [body |-> "", status |-> 200, kind |-> "http", statusText |-> "OK", json |-> json]
Failure(status, statusText, body) ==
    [body |-> body, status |-> status, kind |-> "http", statusText |-> statusText, json |-> <<>>]

\* Response.ok
Ok(resp) == resp.status \in 200..299

-----------------------------------------------------------------------------
(* What the clients make of an answer *)

Returned(value) == [kind |-> "returned", value |-> value, error |-> <<>>]
Raised(error) == [kind |-> "raised", value |-> <<>>, error |-> error]
Pending == [kind |-> "pending", value |-> <<>>, error |-> <<>>]
Exited == [kind |-> "exited", value |-> <<>>, error |-> <<>>]

\* what a rejected fetch throws
NetworkError == <<"TypeError: fetch failed">>

\* fetchAPI: throws `WordPress API error: ${status} ${statusText}` when the
\* response is not ok, otherwise returns its JSON
FetchApiSettle(resp) ==
    IF resp.kind = "rejected" THEN Raised(NetworkError)
    ELSE IF ~Ok(resp)
    THEN Raised(<<"WordPress API error: ", resp.status, " ", resp.statusText>>)
    ELSE Returned(resp.json)

\* wpFetch with an error that leaves the body out
WpFetchSettleWithoutBody(resp) ==
    IF resp.kind = "rejected" THEN Raised(NetworkError)
    ELSE IF ~Ok(resp)
    THEN Raised(<<"WordPress API error: ", resp.status>>)
    ELSE Returned(resp.json)

\* wpFetch: throws `WordPress API error: ${status} - ${error}`, error the
\* body's text, when the response is not ok, otherwise returns its JSON
WpFetchSettle(resp) ==
    IF resp.kind = "rejected" THEN Raised(NetworkError)
    ELSE IF ~Ok(resp)
    THEN Raised(<<"WordPress API error: ", resp.status, " - ", resp.body>>)
    ELSE Returned(resp.json)

Null == <<"null">>

\* posts[0] || null, categories[0] || null
FirstOrNull(items) == IF Len(items) > 0 THEN items[1] ELSE Null

\* getAllPostSlugs without its try/catch
AllPostSlugsOutcomeUncaught(resp) ==
    LET r == FetchApiSettle(resp)
    IN  IF r.kind = "raised" THEN [outcome |-> r, console |-> <<>>]
        ELSE [outcome |-> Returned([i \in 1..Len(r.value) |-> r.value[i].slug]),
              console |-> <<>>]

\* getAllPostSlugs: the slugs of the posts, or a warning and no slugs when
\* fetchAPI throws
AllPostSlugsOutcome(resp) ==
    LET r == FetchApiSettle(resp)
    IN  IF r.kind = "raised"
        THEN [outcome |-> Returned(<<>>),
              console |-> <<<<"warn", "Could not fetch post slugs from WordPress:", r.error>>>>]
        ELSE [outcome |-> Returned([i \in 1..Len(r.value) |-> r.value[i].slug]),
              console |-> <<>>]

\* categories.find((cat) => cat.name.toLowerCase() === name.toLowerCase())
\* as the position of the category found, 0 for undefined
FindCategory(items, name) ==
    LET hits == {i \in 1..Len(items) : ToLowerCase(items[i].name) = ToLowerCase(name)}
    IN  IF hits = {} THEN 0 ELSE Min(hits)

\* the script's request with the categories left out
ScriptRequestUncategorised == CreatePostRequest("publish", <<>>)

\* the script's only request: createPost({..., status: "publish", categories: [categoryId]})
ScriptRequest == CreatePostRequest("publish", <<ScriptCategoryId>>)

\* what the script prints: the four lines of publish(), or the error that
\* publish().catch(console.error) logs
ScriptConsole(r) ==
    IF r.kind = "raised" THEN <<<<"error", r.error>>>>
    ELSE <<<<"log", "Post published!">>, <<"log", "ID:", r.value.id>>,
           <<"log", "URL:", r.value.link>>, <<"log", "Slug:", r.value.slug>>>>

-----------------------------------------------------------------------------
(* processContent as a state machine: one step per pass *)

\* let processed = content; const codeBlocks = []
StartContent(input) ==
    /\ content = input
    /\ processed = input
    /\ codeBlocks = <<>>
    /\ pc = "protect"

PassProtect ==
    /\ pc = "protect"
    /\ codeBlocks' = CapturedCode(processed)
    /\ processed' = ProtectInlineCode(processed)
    /\ pc' = "headings"
    /\ UNCHANGED content
    /\ UNCHANGED <<excerptVars, httpVars>>

PassHeadings ==
    /\ pc = "headings"
    /\ processed' = Headings(processed)
    /\ pc' = "emphasis"
    /\ UNCHANGED <<content, codeBlocks>>
    /\ UNCHANGED <<excerptVars, httpVars>>

PassEmphasis ==
    /\ pc = "emphasis"
    /\ processed' = Emphasis(processed)
    /\ pc' = "restore"
    /\ UNCHANGED <<content, codeBlocks>>
    /\ UNCHANGED <<excerptVars, httpVars>>

PassRestore ==
    /\ pc = "restore"
    /\ processed' = RestoreInlineCode(processed, codeBlocks)
    /\ pc' = "fences"
    /\ UNCHANGED <<content, codeBlocks>>
    /\ UNCHANGED <<excerptVars, httpVars>>

PassFences ==
    /\ pc = "fences"
    /\ processed' = CodeFences(processed)
    /\ pc' = "blockquotes"
    /\ UNCHANGED <<content, codeBlocks>>
    /\ UNCHANGED <<excerptVars, httpVars>>

PassBlockquotes ==
    /\ pc = "blockquotes"
    /\ processed' = Blockquotes(processed)
    /\ pc' = "rules"
    /\ UNCHANGED <<content, codeBlocks>>
    /\ UNCHANGED <<excerptVars, httpVars>>

PassRules ==
    /\ pc = "rules"
    /\ processed' = HorizontalRules(processed)
    /\ pc' = "ordered"
    /\ UNCHANGED <<content, codeBlocks>>
    /\ UNCHANGED <<excerptVars, httpVars>>

PassOrderedLists ==
    /\ pc = "ordered"
    /\ processed' = OrderedLists(processed)
    /\ pc' = "unordered"
    /\ UNCHANGED <<content, codeBlocks>>
    /\ UNCHANGED <<excerptVars, httpVars>>

\* the last pass; `return processed`
PassUnorderedLists ==
    /\ pc = "unordered"
    /\ processed' = UnorderedLists(processed)
    /\ pc' = "done"
    /\ UNCHANGED <<content, codeBlocks>>
    /\ UNCHANGED <<excerptVars, httpVars>>

NextContent ==
    \/ PassProtect
    \/ PassHeadings
    \/ PassEmphasis
    \/ PassRestore
    \/ PassFences
    \/ PassBlockquotes
    \/ PassRules
    \/ PassOrderedLists
    \/ PassUnorderedLists


-----------------------------------------------------------------------------
(* getExcerptText as a state machine: the chain of replaces, then the cut *)

MaxExcerptParts == 3
MaxShortLength == 4
\* maxLength: number = 160
DefaultMaxLength == 160

ExcerptParts ==
    {<<"a">>, <<" ">>, LitAmp, LitNbsp, LitEnDashEntity, Tag(<<"b">>), LitStars,
     <<"#", " ">>, <<BT>>, <<"[", "l", "]", "(", "u", ")">>}
ExcerptInputs ==
    UNION {{Join(parts, <<>>) : parts \in [1..n -> ExcerptParts]} : n \in 0..MaxExcerptParts}
MaxLengths == (-1..MaxShortLength) \cup {DefaultMaxLength}

StartExcerpt(input, max) ==
    /\ excerpt = input
    /\ maxLength = max
    /\ text = <<>>
    /\ excerptOut = <<>>
    /\ xpc = "clean"

\* let text = excerpt.replace(...)....trim()
ExcerptClean ==
    /\ xpc = "clean"
    /\ text' = CleanExcerpt(excerpt)
    /\ xpc' = "cut"
    /\ UNCHANGED <<excerpt, maxLength, excerptOut>>
    /\ UNCHANGED <<contentVars, httpVars>>

\* the two return statements
ExcerptReturn ==
    /\ xpc = "cut"
    /\ excerptOut' = TruncateExcerpt(text, maxLength)
    /\ xpc' = "done"
    /\ UNCHANGED <<excerpt, maxLength, text>>
    /\ UNCHANGED <<contentVars, httpVars>>

NextExcerpt == ExcerptClean \/ ExcerptReturn

ContentIdle ==
    /\ content = <<>>
    /\ processed = <<>>
    /\ codeBlocks = <<>>
    /\ pc = "idle"

ExcerptIdle ==
    /\ excerpt = <<>>
    /\ maxLength = 0
    /\ text = <<>>
    /\ excerptOut = <<>>
    /\ xpc = "idle"

NoBackend == [fill |-> 0, named |-> <<>>, posts |-> <<>>]


-----------------------------------------------------------------------------
(* The clients as a state machine: a call issues a request, the backend (or
   the network) answers it, the caller goes on from the answer *)

HttpOps ==
    {"getPosts", "getPostBySlug", "getAllPostSlugs", "getCategories", "getCategoryBySlug",
     "createPost", "updatePost", "publishPost", "listCategories", "createCategory",
     "getOrCreateCategory", "publishScript"}

\* the rest of a call: the request is out, nothing has come back
Issue(name, arg, req) ==
    /\ hpc \in {"idle", "done"}
    /\ op' = [name |-> name, arg |-> arg]
    /\ requests' = <<req>>
    /\ responses' = <<>>
    /\ outcome' = Pending
    /\ console' = <<>>
    /\ hpc' = "await"
    /\ UNCHANGED backend
    /\ UNCHANGED <<contentVars, excerptVars>>

CallGetPosts == \E perPage \in {0, 1, 20} : Issue("getPosts", perPage, GetPostsRequest(perPage))
CallGetPostBySlug == \E slug \in Slugs : Issue("getPostBySlug", slug, GetPostBySlugRequest(slug))
CallGetAllPostSlugs == Issue("getAllPostSlugs", <<>>, GetAllPostSlugsRequest)
CallGetCategories == Issue("getCategories", <<>>, ReadCategoriesRequest)
CallGetCategoryBySlug ==
    \E name \in CategoryNames :
        Issue("getCategoryBySlug", ToLowerCase(name), GetCategoryBySlugRequest(ToLowerCase(name)))
CallCreatePost ==
    \E status \in {"draft", "publish"} :
        Issue("createPost", status, CreatePostRequest(status, <<>>))
CallUpdatePost ==
    \E id \in PostIds : Issue("updatePost", id, UpdatePostRequest(id, <<<<"status", "draft">>>>))
CallPublishPost == \E id \in PostIds : Issue("publishPost", id, PublishPostRequest(id))
\* getCategories of wordpress-publish.ts
CallListCategories == Issue("listCategories", <<>>, GetCategoriesRequest)
CallCreateCategory ==
    \E name \in CategoryNames : Issue("createCategory", name, CreateCategoryRequest(name))
CallGetOrCreateCategory ==
    \E name \in CategoryNames : Issue("getOrCreateCategory", name, GetCategoriesRequest)
\* scripts/publish-post.ts
RunPublishScript == Issue("publishScript", <<>>, ScriptRequest)

LastRequest == requests[Len(requests)]
LastResponse == responses[Len(responses)]

Answer(resp, b) ==
    /\ hpc = "await"
    /\ responses' = Append(responses, resp)
    /\ backend' = b
    /\ hpc' = "settled"
    /\ UNCHANGED <<op, requests, outcome, console>>
    /\ UNCHANGED <<contentVars, excerptVars>>

\* the backend serves the request
DeliverSuccess ==
    /\ hpc = "await"
    /\ CanServe(backend, LastRequest)
    /\ Answer(Success(JsonFor(backend, LastRequest)), Served(backend, LastRequest))

\* the backend answers with a status that is not 2xx
DeliverFailure ==
    \E status \in ErrorStatuses, reason \in StatusTexts, body \in ErrorBodies :
        Answer(Failure(status, reason, body), backend)

\* the fetch rejects
DeliverRejection == Answer(Rejected, backend)

Finish(result, lines) ==
    /\ outcome' = result
    /\ console' = lines
    /\ hpc' = "done"
    /\ UNCHANGED <<backend, op, requests, responses>>
    /\ UNCHANGED <<contentVars, excerptVars>>

\* getPosts, getCategories: return fetchAPI(...)
SettleRead ==
    /\ hpc = "settled"
    /\ op.name \in {"getPosts", "getCategories"}
    /\ Finish(FetchApiSettle(LastResponse), <<>>)

\* getPostBySlug, getCategoryBySlug
SettleFirstOrNull ==
    /\ hpc = "settled"
    /\ op.name \in {"getPostBySlug", "getCategoryBySlug"}
    /\ LET r == FetchApiSettle(LastResponse)
       IN  Finish(IF r.kind = "raised" THEN r
                  ELSE IF op.name = "getPostBySlug" THEN Returned(FirstOrNull(r.value))
                  ELSE Returned(FirstOrNull(r.value.items)),
                  <<>>)

SettleAllPostSlugs ==
    /\ hpc = "settled"
    /\ op.name = "getAllPostSlugs"
    /\ Finish(AllPostSlugsOutcome(LastResponse).outcome, AllPostSlugsOutcome(LastResponse).console)

\* createPost, updatePost, publishPost, getCategories, createCategory of
\* wordpress-publish.ts: return wpFetch(...)
SettleWrite ==
    /\ hpc = "settled"
    /\ op.name \in {"createPost", "updatePost", "publishPost", "listCategories", "createCategory"}
    /\ Finish(WpFetchSettle(LastResponse), <<>>)

\* getOrCreateCategory after getCategories(): the id of the category found,
\* or the call of createCategory
SettleLookup ==
    /\ hpc = "settled"
    /\ op.name = "getOrCreateCategory"
    /\ Len(requests) = 1
    /\ LET r == WpFetchSettle(LastResponse)
           existing == FindCategory(r.value.items, op.arg)
       IN  IF r.kind = "raised" THEN Finish(r, <<>>)
           ELSE IF existing # 0 THEN Finish(Returned(r.value.items[existing].id), <<>>)
           ELSE /\ requests' = Append(requests, CreateCategoryRequest(op.arg))
                /\ hpc' = "await"
                /\ UNCHANGED <<backend, op, responses, outcome, console>>
                /\ UNCHANGED <<contentVars, excerptVars>>

\* getOrCreateCategory after createCategory(name)
SettleCreated ==
    /\ hpc = "settled"
    /\ op.name = "getOrCreateCategory"
    /\ Len(requests) = 2
    /\ LET r == WpFetchSettle(LastResponse)
       IN  Finish(IF r.kind = "raised" THEN r ELSE Returned(r.value.id), <<>>)

\* publish().catch(console.error), after createPost
SettleScript ==
    /\ hpc = "settled"
    /\ op.name = "publishScript"
    /\ Finish(Exited, ScriptConsole(WpFetchSettle(LastResponse)))

NextHttp ==
    \/ CallGetPosts
    \/ CallGetPostBySlug
    \/ CallGetAllPostSlugs
    \/ CallGetCategories
    \/ CallGetCategoryBySlug
    \/ CallCreatePost
    \/ CallUpdatePost
    \/ CallPublishPost
    \/ CallListCategories
    \/ CallCreateCategory
    \/ CallGetOrCreateCategory
    \/ RunPublishScript
    \/ DeliverSuccess
    \/ DeliverFailure
    \/ DeliverRejection
    \/ SettleRead
    \/ SettleFirstOrNull
    \/ SettleAllPostSlugs
    \/ SettleWrite
    \/ SettleLookup
    \/ SettleCreated
    \/ SettleScript

\* the backends a run starts from: the named categories on the first page, or
\* the last of them or all of them beyond it
Backends ==
    {[fill |-> fill, named |-> named, posts |-> posts] :
        fill \in {0, PerPage - 1, PerPage},
        named \in UNION {[1..n -> CategoryNames] : n \in 0..MaxNamed},
        posts \in UNION {[1..n -> Slugs] : n \in 0..MaxPosts}}

HttpIdle ==
    /\ op = [name |-> "none", arg |-> <<>>]
    /\ hpc = "idle"
    /\ requests = <<>>
    /\ responses = <<>>
    /\ outcome = Pending
    /\ console = <<>>

-----------------------------------------------------------------------------
(* The inputs the specifications start from *)

\* the strings over alphabet of length lo..hi
Strings(alphabet, lo, hi) == UNION {[1..n -> alphabet] : n \in lo..hi}

\* whether part occurs in s
Contains(s, part) == \E i \in 1..(Len(s) + 1) : At(part, s, i)

MaxCodeLen == 2
MaxBodyLen == 2
MaxEmphLen == 2
MaxTitleLen == 3
MaxLines == 2

\* one inline code span, in a context of emphasis markers or of a paragraph
\* that a later pass rewrites
InlineLeads ==
    {<<>>, LitP, LitP \o <<"-", " ">>, LitP \o <<"1", ".", " ">>, LitP \o LitStars,
     LitP \o <<"#", " ">>, LitP \o LitGt \o <<" ">>, <<"*">>}
InlineTrails == {<<>>, LitPEnd, LitStars \o LitPEnd, <<"*">>}
InlineCodeTexts == Strings({"a", "*", "_", "#", NL}, 1, MaxCodeLen)
InlineInput(lead, code, trail) == lead \o <<BT>> \o code \o <<BT>> \o trail
InlineInputs ==
    {InlineInput(lead, code, trail) :
        lead \in InlineLeads, code \in InlineCodeTexts, trail \in InlineTrails}

\* one fenced code block: fence, language word, newline, body, newline, fence
FenceLangs == {<<>>, <<"j", "s">>}
FenceBodies == Strings({"x", "&", "<", ">", " "}, 0, MaxBodyLen)
FenceInput(wrapped, fence, lang, body) ==
    LET block == fence \o lang \o <<NL>> \o body \o <<NL>> \o fence
    IN  IF wrapped THEN Wrap(TagP, block) ELSE block
FenceInputs ==
    {FenceInput(wrapped, fence, lang, body) :
        wrapped \in BOOLEAN, fence \in {LitBackticks, LitTildes},
        lang \in FenceLangs, body \in FenceBodies}

\* emphasis spans around texts with underscores, spaces and line breaks, and
\* paragraphs of underscore-delimited text without any asterisk
\* texts that start and end with a letter
EmphasisTexts ==
    {<<"a">> \o mid \o <<"b">> : mid \in Strings({"a", "_", " ", NL}, 0, MaxEmphLen)}
UnderscoreTexts == Strings({"a", "_"}, 1, MaxEmphLen + 2)
LitAnd == <<" ", "a", "n", "d", " ">>
BoldInput(x) == Wrap(TagP, LitStars \o x \o LitStars)
ItalicInput(y) == Wrap(TagP, <<"*">> \o y \o <<"*">>)
BothInput(x, y) == Wrap(TagP, LitStars \o x \o LitStars \o LitAnd \o <<"*">> \o y \o <<"*">>)
EmphasisInputs ==
    {BoldInput(x) : x \in EmphasisTexts}
        \cup {ItalicInput(y) : y \in EmphasisTexts}
        \cup {BothInput(x, y) : x \in EmphasisTexts, y \in EmphasisTexts}
        \cup {Wrap(TagP, u) : u \in UnderscoreTexts}

\* a paragraph of k hashes, a space and a title; k = 0 gives paragraphs
\* without a heading marker
Titles == Strings({"a", " ", "*", BT, "#", "_"}, 1, MaxTitleLen)
HeadingInput(k, title) == Wrap(TagP, Hashes(k) \o <<" ">> \o title)
HeadingInputs == {HeadingInput(k, title) : k \in 0..6, title \in Titles}
HeadingExpected(k, title) == Wrap(<<"h", DigitSeq[k + 1]>>, title)

ListKinds == {"ordered", "dash", "star"}
ListTexts == {<<"a">>, <<"b", " ", "c">>}
ListSeparators == {<<NL>>, Tag(<<"b", "r">>), <<"<", "b", "r", " ", "/", ">">>}
ListPrefix(kind, i) ==
    CASE kind = "ordered" -> ToDigits(i) \o <<".", " ">>
      [] kind = "dash" -> <<"-", " ">>
      [] kind = "star" -> <<"*", " ">>
\* a paragraph whose lines all carry the prefix of one kind
ListInput(kind, sep, texts) ==
    Wrap(TagP, Join([i \in 1..Len(texts) |-> ListPrefix(kind, i) \o texts[i]], sep))
ListLines == UNION {[1..n -> ListTexts] : n \in 1..MaxLines}
\* paragraphs none of whose lines carries a prefix
NonListInputs ==
    {Wrap(TagP, t) : t \in {<<"a">>, <<"1", ".", NL, " ", "a">>, <<"-", NL, " ", "a">>,
                            <<"1", ".", "a">>, <<"-", "a">>}}
ListInputs ==
    {ListInput(kind, sep, texts) :
        kind \in ListKinds, sep \in ListSeparators, texts \in ListLines}
        \cup NonListInputs
ListExpected(kind, texts) ==
    Wrap(IF kind = "ordered" THEN TagOl ELSE TagUl,
         Join([i \in 1..Len(texts) |-> Wrap(TagLi, texts[i])], <<NL>>))

MaxRuleLen == 5

\* a paragraph of n characters drawn from hyphen, asterisk and underscore, and
\* paragraphs that are too short or hold another character
RuleChars == {"-", "*", "_"}
RuleTexts == Strings(RuleChars, 3, MaxRuleLen)
NonRuleTexts == Strings(RuleChars, 1, 2) \cup {<<"-", "-", "a">>, <<"-", " ", "-">>}
RuleInput(t) == Wrap(TagP, t)
RuleInputs == {RuleInput(t) : t \in RuleTexts \cup NonRuleTexts}

MaxPlaceholderIndex == 2

\* text that reads like a placeholder token, or a space, between two optional
\* code spans; a span is given by its code, <<>> for no span
SpanCodes == {<<>>, <<"a">>, <<"b", "_", "c">>}
Span(code) == IF code = <<>> THEN <<>> ELSE <<BT>> \o code \o <<BT>>
LiteralTokens == {PlaceholderToken(n) : n \in 0..MaxPlaceholderIndex}
PlaceholderInput(before, mid, after) == Span(before) \o mid \o Span(after)
PlaceholderInputs ==
    {PlaceholderInput(before, mid, after) :
        before \in SpanCodes, mid \in LiteralTokens \cup {<<" ">>}, after \in SpanCodes}
\* the same with every span in its <code> element and the rest untouched
PlaceholderExpected(before, mid, after) ==
    LET Code(code) == IF code = <<>> THEN <<>> ELSE Wrap(TagCode, code)
    IN  Code(before) \o mid \o Code(after)

-----------------------------------------------------------------------------
(* The specifications: one per family of inputs *)

vars == <<contentVars, excerptVars, httpVars>>

InitContent(inputs) ==
    /\ \E input \in inputs : StartContent(input)
    /\ ExcerptIdle
    /\ HttpIdle
    /\ backend = NoBackend

InitInline == InitContent(InlineInputs)
SpecInline == InitInline /\ [][NextContent]_vars

InitFence == InitContent(FenceInputs)
SpecFence == InitFence /\ [][NextContent]_vars

InitEmphasis == InitContent(EmphasisInputs)
SpecEmphasis == InitEmphasis /\ [][NextContent]_vars

InitHeading == InitContent(HeadingInputs)
SpecHeading == InitHeading /\ [][NextContent]_vars

InitList == InitContent(ListInputs)
SpecList == InitList /\ [][NextContent]_vars

InitRule == InitContent(RuleInputs)
SpecRule == InitRule /\ [][NextContent]_vars

InitPlaceholder == InitContent(PlaceholderInputs)
SpecPlaceholder == InitPlaceholder /\ [][NextContent]_vars

InitExcerpt ==
    /\ \E input \in ExcerptInputs, max \in MaxLengths : StartExcerpt(input, max)
    /\ ContentIdle
    /\ HttpIdle
    /\ backend = NoBackend
SpecExcerpt == InitExcerpt /\ [][NextExcerpt]_vars

InitHttp ==
    /\ backend \in Backends
    /\ HttpIdle
    /\ ContentIdle
    /\ ExcerptIdle
SpecHttp == InitHttp /\ [][NextHttp]_vars

\* the library as a whole
Init == InitInline \/ InitFence \/ InitEmphasis \/ InitHeading \/ InitList
            \/ InitRule \/ InitPlaceholder \/ InitExcerpt \/ InitHttp
Next == NextContent \/ NextExcerpt \/ NextHttp
Spec == Init /\ [][Next]_vars

-----------------------------------------------------------------------------
(* C1 *)

\* C1: when processContent returns, every inline code span that the first
\* pass captured stands in the output, unmodified, inside a <code> element.
C1_EverySpanRestoredVerbatim ==
    pc = "done" =>
        \A k \in 1..Len(codeBlocks) : Contains(processed, Wrap(TagCode, codeBlocks[k]))

-----------------------------------------------------------------------------
(* C2 *)

\* the block expected for a fence with language word lang
FencedExpected(lang, body) ==
    LitPreCode \o lang \o <<QUOTE, ">">>
        \o ReplaceChar(ReplaceChar(ReplaceChar(Trim(body), "&", LitAmp), "<", LitLt), ">", LitGt)
        \o LitPreCodeEnd

\* C2: a fenced code block with a language word, delimited by ``` or ~~~ and
\* wrapped in a paragraph or not, comes out as <pre><code class="language-LANG">
\* holding the trimmed, escaped body, without the paragraph tags.
C2_FencedBlockBecomesPre ==
    pc = "done" =>
        \A wrapped \in BOOLEAN, fence \in {LitBackticks, LitTildes},
           lang \in FenceLangs \ {<<>>}, body \in FenceBodies :
            content = FenceInput(wrapped, fence, lang, body)
                => processed = FencedExpected(lang, body)

-----------------------------------------------------------------------------
(* C3 *)

\* the part of the result before its ellipsis
ExcerptHead == Sub(excerptOut, 1, Len(excerptOut) - Len(LitDots))

\* C3 as stated: a cleaned text longer than maxLength comes back with length
\* exactly maxLength + 3 and ends in '...'; a cleaned text of length at most
\* maxLength comes back as it is.  Stated for the lengths that are not
\* negative.
C3_CutLengthIsMaxLengthPlusThree ==
    (xpc = "done" /\ maxLength >= 0) =>
        /\ Len(text) > maxLength =>
            /\ Len(excerptOut) = maxLength + 3
            /\ At(LitDots, excerptOut, Len(excerptOut) - 2)
        /\ Len(text) <= maxLength => excerptOut = text

\* C3, amended: the cleaned text is the chain of replaces applied to the
\* excerpt, trimmed.  A cleaned text of length at most maxLength comes back as
\* it is.  A longer one comes back as a prefix of the cleaned text followed by
\* '...': the prefix is the first maxLength characters without the white
\* space they end in, so the result is at most maxLength + 3 long, and exactly
\* that long only when maxLength is 0 or the character at maxLength is not
\* white space; a negative maxLength gives '...' alone.
C3_CutIsTrimmedPrefixPlusEllipsis ==
    xpc = "done" =>
        /\ text = CleanExcerpt(excerpt)
        /\ Len(text) <= maxLength => excerptOut = text
        /\ Len(text) > maxLength =>
            /\ Len(excerptOut) >= 3
            /\ At(LitDots, excerptOut, Len(excerptOut) - 2)
            /\ Len(ExcerptHead) <= Max({maxLength, 0})
            /\ ExcerptHead = Sub(text, 1, Len(ExcerptHead))
            /\ ExcerptHead # <<>> => ExcerptHead[Len(ExcerptHead)] \notin WhiteSpace
            /\ \A j \in (Len(ExcerptHead) + 1)..maxLength : text[j] \in WhiteSpace
            /\ Len(excerptOut) = maxLength + 3
                    <=> (maxLength = 0 \/ (maxLength > 0 /\ text[maxLength] \notin WhiteSpace))

\* a cut that ended in white space has been returned, shorter than maxLength + 3
C3_Witness ==
    /\ xpc = "done"
    /\ maxLength > 0
    /\ Len(text) > maxLength
    /\ text[maxLength] \in WhiteSpace
    /\ Len(excerptOut) < maxLength + 3

-----------------------------------------------------------------------------
(* C4 *)

\* the positions of the backend's categories whose name equals name without
\* regard to case
Matching(b, name) ==
    {i \in 1..Len(b.named) : ToLowerCase(b.named[i]) = ToLowerCase(name)}

\* C4: getOrCreateCategory(name) sends a request that creates a category only
\* when no category of the backend, however many it holds, has that name
\* without regard to case; and when its listing succeeded and it made no
\* second request, it returns the id of a category with that name.
C4_ExistingCategoryIsNeverCreated ==
    op.name = "getOrCreateCategory" =>
        /\ (Len(requests) = 2 /\ hpc = "await") => Matching(backend, op.arg) = {}
        /\ (hpc = "done" /\ Len(requests) = 1 /\ Ok(responses[1])) =>
                /\ outcome.kind = "returned"
                /\ \E i \in Matching(backend, op.arg) : outcome.value = CategoryId(backend, i)

-----------------------------------------------------------------------------
(* C5 *)

-----------------------------------------------------------------------------
(* C6 *)

\* C6: getAllPostSlugs sends one request and never raises.  When the fetch
\* rejects or the answer is not a 2xx it logs one warning and returns the
\* empty sequence; when the answer is a 2xx it returns the slugs of the
\* posts of the answer, in the order of the answer.
C6_AllPostSlugsNeverRaises ==
    op.name = "getAllPostSlugs" =>
        /\ Len(requests) = 1
        /\ outcome.kind # "raised"
        /\ hpc = "done" =>
            /\ outcome.kind = "returned"
            /\ ~Ok(responses[1]) =>
                    /\ outcome.value = <<>>
                    /\ Len(console) = 1
                    /\ console[1][1] = "warn"
            /\ Ok(responses[1]) =>
                    /\ Len(outcome.value) = Len(responses[1].json)
                    /\ \A i \in 1..Len(outcome.value) :
                            outcome.value[i] = responses[1].json[i].slug
                    /\ outcome.value = backend.posts
                    /\ console = <<>>

\* getAllPostSlugs has returned no slugs after an answer that was not a 2xx,
\* from a backend that holds posts
C6_Witness ==
    /\ op.name = "getAllPostSlugs"
    /\ hpc = "done"
    /\ responses[1].kind = "http"
    /\ ~Ok(responses[1])
    /\ backend.posts # <<>>
    /\ outcome = Returned(<<>>)

-----------------------------------------------------------------------------
(* C7 *)

\* the operations over fetchAPI but getAllPostSlugs, and the operations over
\* wpFetch
RaisingReads == {"getPosts", "getPostBySlug", "getCategories", "getCategoryBySlug"}
RaisingWrites ==
    {"createPost", "updatePost", "publishPost", "listCategories", "createCategory",
     "getOrCreateCategory"}

\* the i-th answer has a status that is not 2xx
FailedAt(i) == responses[i].kind = "http" /\ ~Ok(responses[i])

\* C7: when an operation over fetchAPI other than getAllPostSlugs, or an
\* operation over wpFetch, receives an answer that is not a 2xx, that answer
\* is its last and the request it answers is its last: nothing is sent again
\* or anew.  The operation ends by raising an error that holds the status,
\* with the status text for the reads and the body as received for the writes.
C7_FailureRaisesAndStops ==
    op.name \in RaisingReads \cup RaisingWrites =>
        \A i \in 1..Len(responses) :
            FailedAt(i) =>
                /\ i = Len(responses)
                /\ i = Len(requests)
                /\ hpc = "done" =>
                    /\ outcome.kind = "raised"
                    /\ Len(outcome.error) = 4
                    /\ outcome.error[2] = responses[i].status
                    /\ op.name \in RaisingReads => outcome.error[4] = responses[i].statusText
                    /\ op.name \in RaisingWrites => outcome.error[4] = responses[i].body

\* getOrCreateCategory has raised the failure of its creation request
C7_Witness ==
    /\ op.name = "getOrCreateCategory"
    /\ hpc = "done"
    /\ Len(requests) = 2
    /\ FailedAt(2)
    /\ outcome.kind = "raised"

-----------------------------------------------------------------------------
(* C8 *)

\* C8: every **X** comes out as <strong>X</strong> and every *X* as <em>X</em>,
\* and the emphasis pass leaves a paragraph of underscore-delimited text as it
\* found it.
C8_AsterisksEmphasiseUnderscoresDoNot ==
    /\ pc = "done" =>
        \A x \in EmphasisTexts :
            /\ content = BoldInput(x) => processed = Wrap(TagP, Wrap(TagStrong, x))
            /\ content = ItalicInput(x) => processed = Wrap(TagP, Wrap(TagEm, x))
            /\ \A y \in EmphasisTexts :
                content = BothInput(x, y) =>
                    processed = Wrap(TagP, Wrap(TagStrong, x) \o LitAnd \o Wrap(TagEm, y))
    /\ pc = "restore" =>
        \A u \in UnderscoreTexts : content = Wrap(TagP, u) => processed = content

-----------------------------------------------------------------------------
(* C9 *)

\* a title of one line that does not start with a hash
SingleLineTitle(title) ==
    /\ title # <<>>
    /\ title[1] # "#"
    /\ \A i \in 1..Len(title) : title[i] \notin LineTerminator

\* a title that no other pass touches: it does not start with whitespace, and
\* holds no asterisk, no backtick, no </p> and no placeholder token
PlainTitle(title) ==
    /\ SingleLineTitle(title)
    /\ title[1] \notin WhiteSpace
    /\ \A i \in 1..Len(title) : title[i] \notin {"*", BT} /\ PlaceholderAt(title, i) = <<>>
    /\ ~Contains(title, LitPEnd)

-----------------------------------------------------------------------------
(* C10 *)

\* C10: a paragraph whose lines all start with 'N. ' comes out as one <ol>, and
\* one whose lines all start with '- ' or with '* ' as one <ul>, with one <li>
\* per line holding the line's text; a paragraph without such a line is
\* returned as it was.
C10_PrefixedLinesBecomeList ==
    pc = "done" =>
        /\ \A kind \in ListKinds, sep \in ListSeparators, texts \in ListLines :
            content = ListInput(kind, sep, texts) => processed = ListExpected(kind, texts)
        /\ content \in NonListInputs => processed = content

-----------------------------------------------------------------------------
(* C11 *)

\* C11: a paragraph whose whole content is three or more characters drawn
\* from hyphen, asterisk and underscore reaches the rule pass as it was given,
\* no earlier pass having changed it, and comes out as <hr>.
C11_RuleParagraphBecomesHr ==
    \A t \in RuleTexts :
        content = RuleInput(t) =>
            /\ pc = "rules" => processed = content
            /\ pc = "done" => processed = LitHr

-----------------------------------------------------------------------------
(* C12 *)

\* the indices of the placeholder tokens that s holds
TokenIndices(s) ==
    {ParseInt(Sub(s, PlaceholderAt(s, i)[2], PlaceholderAt(s, i)[3])) :
        i \in {j \in 1..Len(s) : PlaceholderAt(s, j) # <<>>}}

\* C12: the restore pass finds only tokens that the protect pass made: every
\* index it is about to restore is below the number of captured spans; and
\* when processContent returns, each captured span stands once, in its <code>
\* element, where it was taken from, while input text outside backticks that
\* reads __CODE_BLOCK_n__ is still that text, replaced neither by a captured
\* span nor by 'undefined'.
C12_OnlyOwnPlaceholdersRestored ==
    /\ pc = "restore" => \A n \in TokenIndices(processed) : n < Len(codeBlocks)
    /\ pc = "done" =>
        \A before \in SpanCodes, mid \in LiteralTokens \cup {<<" ">>}, after \in SpanCodes :
            content = PlaceholderInput(before, mid, after)
                => processed = PlaceholderExpected(before, mid, after)

=============================================================================
